---- MODULE Spec2Model ----
(***************************************************************************)
(* The scheduled scraper handler of ecommerce-tracker-scraper.             *)
(*                                                                         *)
(* One invocation ("pass") of handler scans the products table page by     *)
(* page and, for every record, fetches the product page, extracts a        *)
(* reading, decides priceDropped / restocked, notifies and persists.       *)
(* The handler is an async function: the model has one action per          *)
(* completion of an awaited call (scan, page fetch, user lookup, the two   *)
(* publishes, the store update), which runs the synchronous code up to the *)
(* next awaited call or to the head of the for loop, and one action per    *)
(* iteration of the for loop.  pc names the call the handler is awaiting,  *)
(* or "loop" at the head of the for loop.                                  *)
(*                                                                         *)
(* Optional values (T | undefined, T | null) are sets with at most one     *)
(* element: None is the missing value, Some(x) a present one.              *)
(***************************************************************************)
EXTENDS Integers, Sequences, FiniteSets, TLC

\* ------------------------------------------------------------- bounds
MaxRecords == 2     \* records in the products table
MaxPrice   == 1     \* prices are 0..MaxPrice
MaxTime    == 1     \* clock readings are 0..MaxTime
MaxTokenLen == 2    \* characters of a token captured in a page
MaxParamLen == 3    \* characters of a captured price= parameter

\* ------------------------------------------------------------- values
None    == {}
Some(x) == {x}
Val(o)  == CHOOSE x \in o : TRUE

Prices    == 0 .. MaxPrice
OptPrice  == {None} \cup {Some(p) : p \in Prices}
OptBool   == {None, Some(TRUE), Some(FALSE)}
Markets   == {"tokopedia", "amazon"}

\* An attribute of a stored record: absent, a number, a boolean, or a value of
\* another type (a string).
Absent  == <<>>
Num(n)  == <<"number", n>>
Bool(b) == <<"boolean", b>>
Str     == <<"string">>

\* typeof v === 'number', typeof v === 'boolean'
IsNumber(v)  == Len(v) = 2 /\ v[1] = "number"
IsBoolean(v) == Len(v) = 2 /\ v[1] = "boolean"

\* An environment string: empty when the variable is not set.
EnvValues == {"", "set"}

VARIABLES
    market,                        \* which marketplace's handler is deployed
    PRODUCTS_TABLE,
    USERS_TABLE,
    SNS_PRICE_DROP_TOPIC_ARN,
    SNS_STOCK_RESTOCK_TOPIC_ARN,
    table,                         \* the products table, in scan order
    pc,                            \* where handler is
    ExclusiveStartKey,             \* None, or Some(index of the last record scanned)
    items,                         \* the page returned by the last scan
    cur,                           \* position in items of the loop's item, 0 before the first
    processed,
    loc,                           \* the cycle's reading and decision
    calls,                         \* what the loop's item's cycle did, in order
    scans,                         \* the cursors of the scans issued in this pass
    pages,                         \* what each answered scan of this pass returned
    visits,                        \* how often the loop took each record in this pass
    now,                           \* the last reading of the clock
    html,                          \* the page text given to an extractor on its own
    result                         \* None, or Some(what that extractor returned)

\* What handler never assigns: its environment, and the page and result of an
\* extractor that is applied on its own.
env  == <<market, PRODUCTS_TABLE, USERS_TABLE, SNS_PRICE_DROP_TOPIC_ARN,
          SNS_STOCK_RESTOCK_TOPIC_ARN, html, result>>
vars == <<market, PRODUCTS_TABLE, USERS_TABLE, SNS_PRICE_DROP_TOPIC_ARN,
          SNS_STOCK_RESTOCK_TOPIC_ARN, table, pc, ExclusiveStartKey, items,
          cur, processed, loc, calls, scans, pages, visits, now, html, result>>

\* ------------------------------------------------------------- the store
\* A record of the products table whose product_url and user_id are present.
\* Record i of the table has product_url i: the update is keyed by it.
\* Until its first update it has no last price and no in_stock, or attributes
\* of these names that another writer left with another type.
TrackedRecords(i) ==
    { [product_url |-> Some(i), user_id |-> Some("user"),
       last_price |-> Absent, in_stock |-> Absent, updated_at |-> 0],
      [product_url |-> Some(i), user_id |-> Some("user"),
       last_price |-> Str, in_stock |-> Str, updated_at |-> 0] }

\* A record that lacks product_url or user_id.
MalformedRecords(i) ==
    { [product_url |-> None, user_id |-> Some("user"),
       last_price |-> Absent, in_stock |-> Absent, updated_at |-> 0],
      [product_url |-> Some(i), user_id |-> None,
       last_price |-> Absent, in_stock |-> Absent, updated_at |-> 0] }

InitTables ==
    UNION { { t \in [1 .. n -> UNION {TrackedRecords(i) \cup MalformedRecords(i) : i \in 1 .. n}] :
                \A i \in 1 .. n : t[i] \in TrackedRecords(i) \cup MalformedRecords(i) }
            : n \in 0 .. MaxRecords }

NoLoc == [price |-> None, inStock |-> None, nowInStock |-> FALSE, priceDropped |-> FALSE,
          restocked |-> FALSE, at |-> 0]

Init ==
    /\ market \in Markets
    /\ PRODUCTS_TABLE \in EnvValues
    /\ USERS_TABLE \in EnvValues
    /\ SNS_PRICE_DROP_TOPIC_ARN \in EnvValues
    /\ SNS_STOCK_RESTOCK_TOPIC_ARN \in EnvValues
    /\ table \in InitTables
    /\ pc = "idle"
    /\ ExclusiveStartKey = None
    /\ items = <<>>
    /\ cur = 0
    /\ processed = 0
    /\ loc = NoLoc
    /\ calls = <<>>
    /\ scans = <<>>
    /\ pages = <<>>
    /\ visits = [i \in DOMAIN table |-> 0]
    /\ now = 0
    /\ html = None
    /\ result = None

\* ------------------------------------------------------------- the decision
\* The previous state of a scanned item, as handler reads it.
\* typeof item.last_price === 'number' ? item.last_price : undefined
lastPrice(item) == IF IsNumber(item.last_price) THEN Some(item.last_price[2]) ELSE None

\* typeof item.in_stock === 'boolean' ? item.in_stock : false
prevInStock(item) == IF IsBoolean(item.in_stock) THEN item.in_stock[2] ELSE FALSE

\* Mutant of Malformed: only the url is required.
Malformed_UrlOnly(item) == item.product_url = None

\* !productUrl || !userId
Malformed(item) == item.product_url = None \/ item.user_id = None

\* Mutant of nowInStock: unknown stock counts as in stock.
nowInStock_DefaultTrue(inStock, prev) == IF inStock # None THEN Val(inStock) ELSE TRUE

\* Mutant of nowInStock: unknown stock falls back to false.
nowInStock_DefaultFalse(inStock, prev) == IF inStock # None THEN Val(inStock) ELSE FALSE

\* inStock ?? prevInStock
nowInStock(inStock, prev) == IF inStock # None THEN Val(inStock) ELSE prev

\* Mutant of priceDropped: an equal price counts as a drop.
priceDropped_OrEqual(last, price) == last # None /\ price <= Val(last)

\* lastPrice != null && price < lastPrice
priceDropped(last, price) == last # None /\ price < Val(last)

\* Mutant of restocked: in stock now, whatever was stored.
restocked_AnyInStock(prev, nowIn) == nowIn = TRUE

\* prevInStock === false && nowInStock === true
restocked(prev, nowIn) == prev = FALSE /\ nowIn = TRUE

\* The clock does not run backwards; it is read when the update is built.
Clock == now .. (IF now < MaxTime THEN now + 1 ELSE now)

\* The loop's item: the scanned record and its place in the table.
Item == items[cur].rec
Idx  == items[cur].idx

\* The marketplaces that have an extractor.
Extractors == {"tokopedia", "amazon", "lazada"}

\* The marketplace on whose site a product_url lies.  The table takes any URL:
\* the first record's is a Tokopedia page, the second's a page of a marketplace
\* that has no extractor, any other an Amazon page.
MarketplaceOf(url) ==
    IF url = 1 THEN "tokopedia" ELSE IF url = 2 THEN "shopee" ELSE "amazon"

\* ------------------------------------------------------------- the cycle
\* Mutant of Catch: no try block around the cycle, the error ends the invocation.
Catch_Rethrow ==
    /\ pc' = "failed"
    /\ calls' = Append(calls, "error")
    /\ UNCHANGED <<env, table, ExclusiveStartKey, items, cur, processed, loc, scans,
                   pages, visits, now>>

\* catch (err): log the error; the for loop goes on.
Catch ==
    /\ pc' = "loop"
    /\ calls' = Append(calls, "error")
    /\ UNCHANGED <<env, table, ExclusiveStartKey, items, cur, processed, loc, scans,
                   pages, visits, now>>

\* Mutant of AfterPublishPrice: the restock publish is the else branch of the
\* price-drop publish.
AfterPublishPrice_ElseIf(l) ==
    IF /\ l.restocked /\ SNS_STOCK_RESTOCK_TOPIC_ARN # ""
       /\ ~(l.priceDropped /\ SNS_PRICE_DROP_TOPIC_ARN # "")
    THEN "publishRestock" ELSE "update"

\* Mutant of AfterGet: the restock publish comes first and stands for both.
AfterGet_RestockFirst(l) ==
    IF l.restocked /\ SNS_STOCK_RESTOCK_TOPIC_ARN # "" THEN "publishRestock"
    ELSE IF l.priceDropped /\ SNS_PRICE_DROP_TOPIC_ARN # "" THEN "publishPrice"
    ELSE "update"

\* The call an item's cycle awaits next.
AfterPublishPrice(l) ==
    IF l.restocked /\ SNS_STOCK_RESTOCK_TOPIC_ARN # "" THEN "publishRestock" ELSE "update"

AfterGet(l) ==
    IF l.priceDropped /\ SNS_PRICE_DROP_TOPIC_ARN # "" THEN "publishPrice"
    ELSE AfterPublishPrice(l)

AfterDecide(l) ==
    IF l.priceDropped \/ l.restocked THEN "get" ELSE "update"

\* Issue the cycle's next call; the update carries the clock's reading.
Issue(next, l) ==
    /\ pc' = next
    /\ calls' = Append(calls, next)
    /\ \E t \in Clock :
         /\ now' = IF next = "update" THEN t ELSE now
         /\ loc' = [l EXCEPT !.at = IF next = "update" THEN t ELSE 0]
    /\ UNCHANGED <<env, table, ExclusiveStartKey, items, cur, processed, scans, pages,
                   visits>>

\* ------------------------------------------------------------- the actions
\* Mutant of Start: only the products table is required.
Start_ProductsOnly ==
    /\ pc \in {"idle", "done", "failed"}
    /\ processed' = 0
    /\ ExclusiveStartKey' = None
    /\ items' = <<>>
    /\ cur' = 0
    /\ loc' = NoLoc
    /\ calls' = <<>>
    /\ visits' = [i \in DOMAIN table |-> 0]
    /\ IF PRODUCTS_TABLE = ""
       THEN /\ pc' = "failed"
            /\ scans' = <<>>
       ELSE /\ pc' = "scan"
            /\ scans' = <<None>>
    /\ pages' = <<>>
    /\ UNCHANGED <<env, table, now>>

\* handler is invoked: the configuration check, then the first scan.
Start ==
    /\ pc \in {"idle", "done", "failed"}
    /\ processed' = 0
    /\ ExclusiveStartKey' = None
    /\ items' = <<>>
    /\ cur' = 0
    /\ loc' = NoLoc
    /\ calls' = <<>>
    /\ visits' = [i \in DOMAIN table |-> 0]
    /\ IF PRODUCTS_TABLE = "" \/ USERS_TABLE = ""
       THEN /\ pc' = "failed"
            /\ scans' = <<>>
       ELSE /\ pc' = "scan"
            /\ scans' = <<None>>
    /\ pages' = <<>>
    /\ UNCHANGED <<env, table, now>>

\* Where the pending scan starts: after the record its cursor names.
ScanFrom ==
    LET key == scans[Len(scans)]
    IN  IF key = None THEN 0 ELSE Val(key)

\* A scan returns a page: the records after the cursor up to some record j, and
\* a cursor unless j is the last record (the store may also return a cursor
\* with the last record; the scan after it returns an empty page and no cursor).
ScanOk ==
    /\ pc = "scan"
    /\ \E j \in ScanFrom .. Len(table), more \in BOOLEAN :
         /\ j > ScanFrom \/ ScanFrom = Len(table)
         /\ j < Len(table) => more
         /\ j = ScanFrom => ~more
         /\ ExclusiveStartKey' = IF more THEN Some(j) ELSE None
         /\ items' = [n \in 1 .. (j - ScanFrom) |->
                        [idx |-> ScanFrom + n, rec |-> table[ScanFrom + n]]]
         /\ pages' = Append(pages, [LastEvaluatedKey |-> IF more THEN Some(j) ELSE None,
                                    Items |-> (ScanFrom + 1) .. j])
    /\ cur' = 0
    /\ calls' = <<>>
    /\ loc' = NoLoc
    /\ pc' = "loop"
    /\ UNCHANGED <<env, table, processed, scans, visits, now>>

\* The scan is outside the item's try block: its error ends the invocation.
ScanFail ==
    /\ pc = "scan"
    /\ pc' = "failed"
    /\ UNCHANGED <<env, table, ExclusiveStartKey, items, cur, processed, loc, calls,
                   scans, pages, visits, now>>

\* Mutant of SkipItem: the item is counted only after the check of url and owner.
SkipItem_NotCounted ==
    /\ pc = "loop"
    /\ cur < Len(items)
    /\ Malformed(items[cur + 1].rec)
    /\ cur' = cur + 1
    /\ visits' = [visits EXCEPT ![items[cur + 1].idx] = @ + 1]
    /\ calls' = <<"warn">>
    /\ loc' = NoLoc
    /\ UNCHANGED <<env, table, pc, ExclusiveStartKey, items, processed, scans, pages, now>>

\* for (const item of items): the next item is counted; one that lacks url or
\* owner is skipped with a warning.
SkipItem ==
    /\ pc = "loop"
    /\ cur < Len(items)
    /\ Malformed(items[cur + 1].rec)
    /\ cur' = cur + 1
    /\ processed' = processed + 1
    /\ visits' = [visits EXCEPT ![items[cur + 1].idx] = @ + 1]
    /\ calls' = <<"warn">>
    /\ loc' = NoLoc
    /\ UNCHANGED <<env, table, pc, ExclusiveStartKey, items, scans, pages, now>>

\* for (const item of items): the next item is counted and its page fetch issued.
BeginItem ==
    /\ pc = "loop"
    /\ cur < Len(items)
    /\ ~Malformed(items[cur + 1].rec)
    /\ cur' = cur + 1
    /\ processed' = processed + 1
    /\ visits' = [visits EXCEPT ![items[cur + 1].idx] = @ + 1]
    /\ calls' = <<"fetch">>
    /\ loc' = NoLoc
    /\ pc' = "fetch"
    /\ UNCHANGED <<env, table, ExclusiveStartKey, items, scans, pages, now>>

\* Mutant of NextPage: the next scan is issued without the cursor.
NextPage_NoCursor ==
    /\ pc = "loop"
    /\ cur = Len(items)
    /\ ExclusiveStartKey # None
    /\ scans' = Append(scans, None)
    /\ items' = <<>>
    /\ cur' = 0
    /\ calls' = <<>>
    /\ loc' = NoLoc
    /\ pc' = "scan"
    /\ UNCHANGED <<env, table, ExclusiveStartKey, processed, pages, visits, now>>

\* while (ExclusiveStartKey): the page is done and the last scan returned a cursor.
NextPage ==
    /\ pc = "loop"
    /\ cur = Len(items)
    /\ ExclusiveStartKey # None
    /\ scans' = Append(scans, ExclusiveStartKey)
    /\ items' = <<>>
    /\ cur' = 0
    /\ calls' = <<>>
    /\ loc' = NoLoc
    /\ pc' = "scan"
    /\ UNCHANGED <<env, table, ExclusiveStartKey, processed, pages, visits, now>>

\* The page is done and the last scan returned no cursor: report and return.
Finish ==
    /\ pc = "loop"
    /\ cur = Len(items)
    /\ ExclusiveStartKey = None
    /\ items' = <<>>
    /\ cur' = 0
    /\ calls' = <<>>
    /\ loc' = NoLoc
    /\ pc' = "done"
    /\ UNCHANGED <<env, table, ExclusiveStartKey, processed, scans, pages, visits, now>>

\* Mutant of FetchOk: no skip on a null price, the cycle goes on to the restock
\* decision and the update.
FetchOk_NoSkip ==
    /\ pc = "fetch"
    /\ \E price \in OptPrice, inStock \in OptBool :
         LET nis == nowInStock(inStock, prevInStock(Item))
             l   == [price |-> price, inStock |-> inStock, nowInStock |-> nis,
                     priceDropped |-> price # None /\ priceDropped(lastPrice(Item), Val(price)),
                     restocked |-> restocked(prevInStock(Item), nis), at |-> 0]
         IN  Issue(AfterDecide(l), l)

\* The page arrives and the extractor returns its reading {price, inStock}.
FetchOk ==
    /\ pc = "fetch"
    /\ \E price \in OptPrice, inStock \in OptBool :
         IF price = None
         THEN /\ pc' = "loop"
              /\ calls' = Append(calls, "noprice")
              /\ loc' = [loc EXCEPT !.inStock = inStock]
              /\ UNCHANGED <<env, table, ExclusiveStartKey, items, cur, processed, scans,
                             pages, visits, now>>
         ELSE LET nis == nowInStock(inStock, prevInStock(Item))
                  l   == [price |-> price, inStock |-> inStock, nowInStock |-> nis,
                          priceDropped |-> priceDropped(lastPrice(Item), Val(price)),
                          restocked |-> restocked(prevInStock(Item), nis), at |-> 0]
              IN  Issue(AfterDecide(l), l)

\* Network error or non-success response.
FetchFail ==
    /\ pc = "fetch"
    /\ Catch

\* The server does not answer; axios gives up after the configured timeout.
FetchTimeout ==
    /\ pc = "fetch"
    /\ market = "tokopedia"
    /\ Catch

\* The server does not answer and the request has no timeout: the await of
\* axios.get never settles, and handler stays in the item's cycle.
FetchHang ==
    /\ pc = "fetch"
    /\ market = "amazon"
    /\ pc' = "hung"
    /\ UNCHANGED <<env, table, ExclusiveStartKey, items, cur, processed, loc, calls, scans,
                   pages, visits, now>>

GetOk ==
    /\ pc = "get"
    /\ Issue(AfterGet(loc), loc)

GetFail ==
    /\ pc = "get"
    /\ Catch

PublishPriceOk ==
    /\ pc = "publishPrice"
    /\ Issue(AfterPublishPrice(loc), loc)

PublishPriceFail ==
    /\ pc = "publishPrice"
    /\ Catch

PublishRestockOk ==
    /\ pc = "publishRestock"
    /\ Issue("update", loc)

PublishRestockFail ==
    /\ pc = "publishRestock"
    /\ Catch

\* Mutant of Updated: the update expression leaves updated_at out.
Updated_NoTimestamp(t, key, l) ==
    [i \in DOMAIN t |->
        IF t[i].product_url = key
        THEN [t[i] EXCEPT !.last_price = Num(Val(l.price)), !.in_stock = Bool(l.nowInStock)]
        ELSE t[i]]

\* SET last price = :price, in_stock = :inStock, updated_at = :now
\* on the record whose key is the item's product_url.
Updated(t, key, l) ==
    [i \in DOMAIN t |->
        IF t[i].product_url = key
        THEN [t[i] EXCEPT !.last_price = Num(Val(l.price)), !.in_stock = Bool(l.nowInStock),
                          !.updated_at = l.at]
        ELSE t[i]]

UpdateOk ==
    /\ pc = "update"
    /\ table' = Updated(table, Item.product_url, loc)
    /\ pc' = "loop"
    /\ calls' = Append(calls, "updated")
    /\ UNCHANGED <<env, ExclusiveStartKey, items, cur, processed, loc, scans, pages, visits,
                   now>>

UpdateFail ==
    /\ pc = "update"
    /\ Catch

Next ==
    \/ Start
    \/ ScanOk
    \/ ScanFail
    \/ SkipItem
    \/ BeginItem
    \/ NextPage
    \/ Finish
    \/ FetchOk
    \/ FetchFail
    \/ FetchTimeout
    \/ FetchHang
    \/ GetOk
    \/ GetFail
    \/ PublishPriceOk
    \/ PublishPriceFail
    \/ PublishRestockOk
    \/ PublishRestockFail
    \/ UpdateOk
    \/ UpdateFail

Spec == Init /\ [][Next]_vars

\* ------------------------------------------------------------- the extractors
\* A page is given by what each pattern of an extractor finds in it: None when
\* the pattern does not match, else Some(the captured token), a sequence of
\* characters; for a pattern that is only tested, whether it matches.
\* A number is kept in units of 1 / Scale, so that decimals are exact.
Scale == 10 ^ MaxParamLen

Tokens(chars, n) == UNION {[1 .. k -> chars] : k \in 1 .. n}
Opt(S) == {None} \cup {Some(x) : x \in S}

AmountChars == {"1", "5", "."}          \* of [0-9.]
TextChars   == {"1", ".", ",", "R"}     \* of [^"], [^<\n]
QtyChars    == {"0", "1"}               \* of [0-9]
Digits      == {"0", "1", "5"}

\* \d
IsDigit(c) == c \in Digits
DigitValue(c) == CASE c = "0" -> 0 [] c = "1" -> 1 [] c = "5" -> 5

\* s.replace(/[^...]/g, ''): the characters of s that are in keep.
RECURSIVE Keep(_, _)
Keep(s, keep) ==
    IF s = <<>> THEN <<>>
    ELSE IF Head(s) \in keep THEN <<Head(s)>> \o Keep(Tail(s), keep)
    ELSE Keep(Tail(s), keep)

\* The longest prefix of s made of digits.
RECURSIVE DigitPrefix(_)
DigitPrefix(s) ==
    IF s # <<>> /\ IsDigit(Head(s)) THEN <<Head(s)>> \o DigitPrefix(Tail(s)) ELSE <<>>

\* The number that a sequence of digits writes.
RECURSIVE Decimal(_)
Decimal(d) ==
    IF d = <<>> THEN 0 ELSE 10 * Decimal(SubSeq(d, 1, Len(d) - 1)) + DigitValue(d[Len(d)])

\* parseInt(s, 10): the leading digits; None is NaN.
parseInt(s) ==
    LET d == DigitPrefix(s)
    IN  IF d = <<>> THEN None ELSE Some(Decimal(d) * Scale)

\* parseFloat(s): the leading digits, a point and the digits after it; None is NaN.
parseFloat(s) ==
    LET i == DigitPrefix(s)
        r == SubSeq(s, Len(i) + 1, Len(s))
        f == IF r # <<>> /\ Head(r) = "." THEN DigitPrefix(Tail(r)) ELSE <<>>
    IN  IF i = <<>> /\ f = <<>> THEN None
        ELSE Some(Decimal(i) * Scale + Decimal(f) * 10 ^ (MaxParamLen - Len(f)))

\* Math.round(x), x >= 0
MathRound(x) == ((x + Scale \div 2) \div Scale) * Scale

\* A token that price=([0-9]+(?:\.[0-9]+)?) captures.
ParamTokens ==
    { t \in Tokens(AmountChars, MaxParamLen) :
        LET i == DigitPrefix(t)
            r == SubSeq(t, Len(i) + 1, Len(t))
        IN  /\ i # <<>>
            /\ r # <<>> => /\ Head(r) = "."
                           /\ Len(r) > 1
                           /\ DigitPrefix(Tail(r)) = Tail(r) }

\* The string that var pdpTrackingData = "..." captures, as JSON.parse sees it:
\* no JSON, or a value whose pdt_price is undefined, not a string, or a string.
Undefined == <<"undefined">>
NotString == <<"number">>
String(t) == <<"string", t>>
TrackingStrings ==
    {[valid |-> FALSE, pdt_price |-> Undefined]} \cup
    {[valid |-> TRUE, pdt_price |-> v] :
        v \in {Undefined, NotString, String(<<>>)} \cup
              {String(t) : t \in Tokens(TextChars, MaxTokenLen)}}

AmazonPages ==
    [site : {"amazon"},
     priceAmount  : Opt(Tokens(AmountChars, MaxTokenLen)),
     displayPrice : Opt(Tokens(TextChars, MaxTokenLen)),
     summary      : Opt(Tokens(TextChars, MaxTokenLen)),
     InStock      : BOOLEAN,
     unavailable  : BOOLEAN]

TokopediaPages ==
    [site : {"tokopedia"},
     priceParam : Opt(ParamTokens),
     Rp         : Opt(Tokens(AmountChars, MaxTokenLen)),
     Stok       : Opt(Tokens(QtyChars, MaxTokenLen)),
     habis      : BOOLEAN]

LazadaPages ==
    [site : {"lazada"},
     pdpTrackingData : Opt(TrackingStrings),
     pdt_price       : Opt(Tokens(TextChars, MaxTokenLen)),
     StokHabis       : BOOLEAN,
     InStock         : BOOLEAN]

\* What a block of an extractor leaves: the price it assigned, or that it threw.
Assigned(price) == [threw |-> FALSE, price |-> price]
Thrown          == [threw |-> TRUE, price |-> None]

\* Mutant of catchEmpty: no try block, the error leaves the extractor.
catchEmpty_NoTry(block) == block

\* try { ... } catch { }: the error is dropped, price is as it was before.
catchEmpty(block) == IF block.threw THEN Assigned(None) ELSE block

\* cleaned = s.replace(/[^0-9.,]/g, ''); normalized = cleaned.replace(/,/g, '');
\* parseFloat(normalized)
parseDisplayed(s) ==
    parseFloat(Keep(Keep(s, Digits \cup {".", ","}), Digits \cup {"."}))

\* digits = s.replace(/[^\d]/g, ''); parseInt(digits, 10)
parseDigits(s) == parseInt(Keep(s, Digits))

\* The three blocks of extractAmazonPriceAndStock that assign price.
amountPrice(h) ==
    IF h.priceAmount # None THEN Assigned(parseFloat(Val(h.priceAmount))) ELSE Assigned(None)

buyBoxPrice(h) ==
    IF h.displayPrice # None THEN parseDisplayed(Val(h.displayPrice)) ELSE None

summaryPrice(h) ==
    IF h.summary # None THEN parseDisplayed(Val(h.summary)) ELSE None

\* Mutant of amazonPrice: the buy-box price is looked for first.
amazonPrice_BuyBoxFirst(h) ==
    LET p1 == buyBoxPrice(h)
        p2 == IF p1 = None THEN catchEmpty(amountPrice(h)).price ELSE p1
    IN  IF p2 = None THEN summaryPrice(h) ELSE p2

amazonPrice(h) ==
    LET p1 == catchEmpty(amountPrice(h)).price
        p2 == IF p1 = None THEN buyBoxPrice(h) ELSE p1
    IN  IF p2 = None THEN summaryPrice(h) ELSE p2

amazonStock(h) ==
    IF h.InStock THEN Some(TRUE)
    ELSE IF h.unavailable THEN Some(FALSE)
    ELSE None

extractAmazonPriceAndStock(h) ==
    [price |-> amazonPrice(h), inStock |-> amazonStock(h), threw |-> FALSE]

\* The blocks of extractTokopediaPriceAndStock.
tokopediaPrice(h) ==
    IF h.priceParam # None THEN Some(MathRound(Val(parseFloat(Val(h.priceParam)))))
    ELSE IF h.Rp # None THEN parseInt(Keep(Val(h.Rp), Digits))
    ELSE None

\* Mutant of tokopediaStock: the out-of-stock keyword is tested first.
tokopediaStock_KeywordFirst(h) ==
    IF h.habis THEN Some(FALSE)
    ELSE IF h.Stok # None
    THEN LET qty == parseInt(Val(h.Stok))
         IN  IF qty # None THEN Some(Val(qty) > 0) ELSE None
    ELSE None

tokopediaStock(h) ==
    IF h.Stok # None
    THEN LET qty == parseInt(Val(h.Stok))
         IN  IF qty # None THEN Some(Val(qty) > 0) ELSE None
    ELSE IF h.habis THEN Some(FALSE)
    ELSE None

extractTokopediaPriceAndStock(h) ==
    [price |-> tokopediaPrice(h), inStock |-> tokopediaStock(h), threw |-> FALSE]

\* The blocks of extractLazadaPriceAndStock.  JSON.parse throws on a string
\* that is no JSON.
trackingPrice(h) ==
    IF h.pdpTrackingData = None THEN Assigned(None)
    ELSE LET tracking == Val(h.pdpTrackingData)
         IN  IF ~tracking.valid THEN Thrown
             ELSE IF tracking.pdt_price[1] = "string"
             THEN Assigned(parseDigits(tracking.pdt_price[2]))
             ELSE Assigned(None)

rawPrice(h) ==
    IF h.pdt_price # None THEN parseDigits(Val(h.pdt_price)) ELSE None

lazadaStock(h) ==
    IF h.StokHabis THEN Some(FALSE)
    ELSE IF h.InStock THEN Some(TRUE)
    ELSE None

extractLazadaPriceAndStock(h) ==
    LET block == catchEmpty(trackingPrice(h))
    IN  IF block.threw THEN [price |-> None, inStock |-> None, threw |-> TRUE]
        ELSE [price |-> IF block.price = None THEN rawPrice(h) ELSE block.price,
              inStock |-> lazadaStock(h), threw |-> FALSE]

\* An extractor applied on its own to a page: handler is not running.
handlerVars == <<market, PRODUCTS_TABLE, USERS_TABLE, SNS_PRICE_DROP_TOPIC_ARN,
                 SNS_STOCK_RESTOCK_TOPIC_ARN, table, pc, ExclusiveStartKey, items,
                 cur, processed, loc, calls, scans, pages, visits, now>>

InitExtract ==
    /\ market = "tokopedia"
    /\ PRODUCTS_TABLE = ""
    /\ USERS_TABLE = ""
    /\ SNS_PRICE_DROP_TOPIC_ARN = ""
    /\ SNS_STOCK_RESTOCK_TOPIC_ARN = ""
    /\ table = <<>>
    /\ pc = "idle"
    /\ ExclusiveStartKey = None
    /\ items = <<>>
    /\ cur = 0
    /\ processed = 0
    /\ loc = NoLoc
    /\ calls = <<>>
    /\ scans = <<>>
    /\ pages = <<>>
    /\ visits = <<>>
    /\ now = 0
    /\ html \in AmazonPages \cup TokopediaPages \cup LazadaPages
    /\ result = None

ExtractAmazon ==
    /\ result = None
    /\ html.site = "amazon"
    /\ result' = Some(extractAmazonPriceAndStock(html))
    /\ UNCHANGED <<handlerVars, html>>

ExtractTokopedia ==
    /\ result = None
    /\ html.site = "tokopedia"
    /\ result' = Some(extractTokopediaPriceAndStock(html))
    /\ UNCHANGED <<handlerVars, html>>

ExtractLazada ==
    /\ result = None
    /\ html.site = "lazada"
    /\ result' = Some(extractLazadaPriceAndStock(html))
    /\ UNCHANGED <<handlerVars, html>>

NextExtract ==
    \/ ExtractAmazon
    \/ ExtractTokopedia
    \/ ExtractLazada

SpecExtract == InitExtract /\ [][NextExtract]_vars

\* ------------------------------------------------------------- the claims
\* What the cycle of the loop's item did.
Has(op)    == \E k \in DOMAIN calls : calls[k] = op
Count(op)  == Cardinality({k \in DOMAIN calls : calls[k] = op})
Failed(op) == /\ Len(calls) >= 2
              /\ calls[Len(calls)] = "error"
              /\ calls[Len(calls) - 1] = op

\* The loop's item has ended its cycle: handler is back at the head of the loop.
CycleEnded == pc = "loop" /\ cur > 0

\* The for loop can take its next step: the next item, the next page, or the end.
LoopGoesOn ==
    /\ cur < Len(items) => ENABLED (SkipItem \/ BeginItem)
    /\ (cur = Len(items) /\ ExclusiveStartKey # None) => ENABLED NextPage
    /\ (cur = Len(items) /\ ExclusiveStartKey = None) => ENABLED Finish

\* A row of the table is written only by the successful update of the cycle of
\* the item with that row's key.
RowWrittenByOwnUpdate ==
    \A i \in DOMAIN table :
        table'[i] # table[i] =>
            /\ pc = "update"
            /\ Idx = i
            /\ calls' = Append(calls, "updated")

\* C1: when the page fetch, the user lookup or a publish of an item fails, no
\* update is issued for the item in the pass and its row stays as it was (the
\* item is taken once in the pass, its row is as the scan returned it, and
\* rows are written by nothing but an item's own update), the error is caught
\* in the item's cycle (handler does not fail), and the loop goes on.
C1_FailedCycle ==
    cur > 0 /\ (Failed("fetch") \/ Failed("get") \/ Failed("publishPrice")
                \/ Failed("publishRestock"))

C1_FailureLeavesItem ==
    /\ [](C1_FailedCycle =>
            /\ pc = "loop"
            /\ ~Has("update")
            /\ visits[Idx] = 1
            /\ table[Idx] = Item
            /\ LoopGoesOn)
    /\ [][RowWrittenByOwnUpdate]_vars

\* A publish failed after the lookup succeeded, and another item follows.
C1_Witness ==
    /\ cur > 0
    /\ Failed("publishRestock")
    /\ Has("publishPrice")
    /\ cur < Len(items)

\* C2: a reading with a null price ends the item's cycle at once: no decision,
\* no user lookup, no publish (whatever the extracted stock) and no update; and
\* a row's last price changes only to the non-null price of the cycle's reading.
C2_NullPriceSkips ==
    /\ []((cur > 0 /\ Has("fetch") /\ pc \notin {"fetch", "hung"} /\ ~Failed("fetch") /\ loc.price = None) =>
            /\ calls = <<"fetch", "noprice">>
            /\ pc = "loop"
            /\ ~loc.priceDropped /\ ~loc.restocked
            /\ table[Idx] = Item
            /\ LoopGoesOn)
    /\ [][\A i \in DOMAIN table :
            table'[i].last_price # table[i].last_price =>
                /\ loc.price # None
                /\ table'[i].last_price = Num(Val(loc.price))]_vars

\* A null price with stock reported true, for an item stored out of stock.
C2_Witness ==
    /\ CycleEnded
    /\ Has("noprice")
    /\ loc.inStock = Some(TRUE)
    /\ Item.in_stock = Bool(FALSE)
    /\ SNS_STOCK_RESTOCK_TOPIC_ARN # ""

\* C3: a cycle whose fetch returned a non-null price and in which no call failed
\* ends with exactly one update, which set the row of the item's product_url to
\* last price = the reading's price, in_stock = the resolved stock and
\* updated_at = the clock's reading, whatever was decided and configured.
C3_SuccessfulCycleUpdates ==
    (CycleEnded /\ loc.price # None /\ ~Has("error")) =>
        /\ Count("update") = 1
        /\ calls[Len(calls)] = "updated"
        /\ table[Idx].product_url = Item.product_url
        /\ table[Idx].last_price = Num(Val(loc.price))
        /\ table[Idx].in_stock =
              Bool(IF loc.inStock # None THEN Val(loc.inStock)
                   ELSE Item.in_stock = Bool(TRUE))
        /\ table[Idx].updated_at = now
        /\ \A i \in DOMAIN table :
              (i # Idx /\ \E k \in (cur + 1) .. Len(items) : items[k].idx = i) =>
                  \E k \in (cur + 1) .. Len(items) : items[k].idx = i /\ table[i] = items[k].rec

\* An update with a price drop decided and no destination configured.
C3_Witness ==
    /\ CycleEnded
    /\ Has("updated")
    /\ loc.priceDropped
    /\ ~loc.restocked
    /\ SNS_PRICE_DROP_TOPIC_ARN = ""
    /\ SNS_STOCK_RESTOCK_TOPIC_ARN = ""
    /\ table[Idx].updated_at > Item.updated_at

\* The records the scans of this pass returned.
Returned == UNION {pages[k].Items : k \in DOMAIN pages}

\* C4: the first scan of a pass carries no cursor and every later scan the
\* cursor the scan before it returned; the loop takes every returned record
\* once; at the end of a page the pass goes on to the next scan exactly when
\* the last scan returned a cursor and finishes exactly when it returned none;
\* a finished pass has taken every record of the table once.
C4_ScanUntilNoCursor ==
    /\ scans # <<>> => scans[1] = None
    /\ \A k \in DOMAIN scans :
          k > 1 => /\ k - 1 \in DOMAIN pages
                   /\ pages[k - 1].LastEvaluatedKey # None
                   /\ scans[k] = pages[k - 1].LastEvaluatedKey
    /\ \A i \in DOMAIN table : visits[i] <= 1 /\ (visits[i] = 1 => i \in Returned)
    /\ pc \in {"scan", "done"} => \A i \in Returned : visits[i] = 1
    /\ (pc = "loop" /\ cur = Len(items)) =>
          IF pages[Len(pages)].LastEvaluatedKey = None
          THEN ENABLED Finish /\ ~ENABLED NextPage
          ELSE ENABLED NextPage /\ ~ENABLED Finish
    /\ pc = "done" =>
          /\ Len(scans) = Len(pages)
          /\ pages[Len(pages)].LastEvaluatedKey = None
          /\ \A i \in DOMAIN table : visits[i] = 1

\* A pass of three scans has finished.
C4_Witness ==
    /\ pc = "done"
    /\ Len(pages) = 3
    /\ Len(table) = 2

\* The stored stock as the data model has it: false until a boolean is stored.
StoredInStock(row) == IsBoolean(row.in_stock) /\ row.in_stock[2]

\* The cycle of the loop's item has its decision: the reading has a price.
Decided == cur > 0 /\ loc.price # None

\* C5: priceDropped holds exactly when the row stores a number as last price
\* and the reading's price is strictly lower.
C5_PriceDropped ==
    Decided =>
        (loc.priceDropped <=>
            (IsNumber(Item.last_price) /\ Val(loc.price) < Item.last_price[2]))

\* A drop, decided.
C5_Witness ==
    /\ Decided
    /\ loc.priceDropped
    /\ Item.last_price = Num(1)
    /\ loc.price = Some(0)

\* C6: restocked holds exactly when the stored stock was false and the resolved
\* stock is true.
C6_Restocked ==
    Decided =>
        (loc.restocked <=>
            (~StoredInStock(Item)
             /\ (IF loc.inStock = None THEN StoredInStock(Item) ELSE Val(loc.inStock))))

\* A restock, decided for an item stored out of stock.
C6_Witness ==
    /\ Decided
    /\ loc.restocked
    /\ Item.in_stock = Bool(FALSE)
    /\ loc.inStock = Some(TRUE)

\* C7: with the stock unknown the resolved stock is the stored one, otherwise it
\* is the reported one; and no step of a cycle whose reading has unknown stock
\* changes the stored stock of a row.
C7_UnknownStockKeepsStored ==
    /\ [](Decided =>
            loc.nowInStock =
                (IF loc.inStock = None THEN StoredInStock(Item) ELSE Val(loc.inStock)))
    /\ [][loc.inStock = None =>
            \A i \in DOMAIN table : StoredInStock(table'[i]) = StoredInStock(table[i])]_vars

\* An update with unknown stock of an item stored in stock.
C7_Witness ==
    /\ CycleEnded
    /\ Has("updated")
    /\ loc.inStock = None
    /\ Item.in_stock = Bool(TRUE)
    /\ table[Idx].in_stock = Bool(TRUE)

\* A publish of the cycle went through.
Published(op) == Has(op) /\ ~Failed(op)

\* The two predicates, from the scanned row and the reading.
PriceDropHolds ==
    IsNumber(Item.last_price) /\ Val(loc.price) < Item.last_price[2]

RestockHolds ==
    /\ ~StoredInStock(Item)
    /\ (IF loc.inStock = None THEN StoredInStock(Item) ELSE Val(loc.inStock))

PublishedAsDecided ==
    /\ Published("publishPrice") <=> (PriceDropHolds /\ SNS_PRICE_DROP_TOPIC_ARN # "")
    /\ Published("publishRestock") <=> (RestockHolds /\ SNS_STOCK_RESTOCK_TOPIC_ARN # "")

C9_MissingTableIsFatal ==
    (PRODUCTS_TABLE = "" \/ USERS_TABLE = "") =>
        /\ pc \in {"idle", "failed"}
        /\ scans = <<>> /\ pages = <<>>
        /\ items = <<>> /\ calls = <<>>
        /\ processed = 0
        /\ table \in InitTables

\* handler failed for the users table alone.
C9_Witness ==
    /\ pc = "failed"
    /\ PRODUCTS_TABLE # ""
    /\ USERS_TABLE = ""

\* C10: a record without product_url or user_id is skipped with a warning and
\* nothing else, and the loop goes on.
C10_MalformedSkipped ==
    (cur > 0 /\ (Item.product_url = None \/ Item.user_id = None)) =>
        /\ calls = <<"warn">>
        /\ pc = "loop"
        /\ table[Idx] = Item
        /\ LoopGoesOn

\* A record without user_id was skipped and another record follows.
C10_Witness ==
    /\ CycleEnded
    /\ Item.user_id = None
    /\ Item.product_url # None
    /\ cur < Len(items)

\* C11: every page fetch carries a bounded timeout, whichever marketplace's
\* handler runs: handler never waits without end on a product page that does not
\* answer, the item's cycle ends as a failure and the loop goes on.
C11_FetchIsBounded ==
    pc # "hung"

\* C12: a row's updated_at never decreases; a cycle that reached its update
\* leaves on its row the time read in that cycle, with or without a
\* notification, and a cycle that was skipped or failed leaves on its row the
\* updated_at that the scan returned.
C12_UpdatedAtForward ==
    /\ [](CycleEnded =>
            IF Has("updated")
            THEN table[Idx].updated_at = loc.at /\ loc.at = now
            ELSE table[Idx].updated_at = Item.updated_at)
    /\ [][\A i \in DOMAIN table : table'[i].updated_at >= table[i].updated_at]_vars

\* A cycle without notification that stamped its row with a later time.
C12_Witness ==
    /\ CycleEnded
    /\ Has("updated")
    /\ ~Has("get")
    /\ table[Idx].updated_at > Item.updated_at

\* The place of a call in an item's cycle; the marks that end a cycle come last.
StepRank(op) ==
    CASE op = "fetch"          -> 1
      [] op = "get"            -> 2
      [] op = "publishPrice"   -> 3
      [] op = "publishRestock" -> 4
      [] op = "update"         -> 5
      [] OTHER                 -> 6

\* The loop's item, if any, has ended its cycle: persisted, skipped or failed.
CycleOver ==
    cur > 0 => /\ calls # <<>>
               /\ calls[Len(calls)] \in {"updated", "warn", "noprice", "error"}

\* C17: handler awaits one call at a time, a call of the loop's item; the calls
\* of a cycle are issued in the order fetch, user lookup, price-drop publish,
\* restock publish, update; the update is issued only once every notification
\* whose predicate holds and whose destination is set has been published; the
\* loop takes the next item only after the cycle of its item is over, and the
\* next scan of a pass only after the cycle of the page's last item is over.
C17_SequentialOrdered ==
    /\ [](/\ pc \in {"fetch", "get", "publishPrice", "publishRestock", "update"} =>
                (/\ cur \in 1 .. Len(items)
                 /\ calls[Len(calls)] = pc
                 /\ calls[1] = "fetch")
          /\ \A j, k \in DOMAIN calls : j < k => StepRank(calls[j]) < StepRank(calls[k])
          /\ Has("update") =>
                (/\ (PriceDropHolds /\ SNS_PRICE_DROP_TOPIC_ARN # "") => Published("publishPrice")
                 /\ (RestockHolds /\ SNS_STOCK_RESTOCK_TOPIC_ARN # "") => Published("publishRestock")
                 /\ (PriceDropHolds \/ RestockHolds) => Has("get"))
          /\ pc = "scan" => (items = <<>> /\ cur = 0))
    /\ [][/\ cur' = cur + 1 => (pc = "loop" /\ CycleOver)
          /\ (Len(scans') = Len(scans) + 1 /\ scans # <<>>) =>
                (pc = "loop" /\ cur = Len(items) /\ CycleOver)]_vars

\* The second item of a page has published both messages and persisted.
C17_Witness ==
    /\ CycleEnded
    /\ cur = 2
    /\ calls = <<"fetch", "get", "publishPrice", "publishRestock", "update", "updated">>

\* The number of records that the first n answered scans of the pass returned.
RECURSIVE PagesTotal(_)
PagesTotal(n) == IF n = 0 THEN 0 ELSE PagesTotal(n - 1) + Cardinality(pages[n].Items)

\* C18: processed counts every record that the scans of the pass returned, once,
\* as the loop takes it: inside a page it is the size of the earlier pages plus
\* the position in the page, whether the item was skipped, had no price, failed
\* or was persisted; the count reported by a finished pass is the number of
\* records that all its scans returned.
C18_CountsEveryRecord ==
    /\ [](/\ pc \in {"loop", "fetch", "get", "publishPrice", "publishRestock", "update"} =>
                processed = PagesTotal(Len(pages) - 1) + cur
          /\ pc = "done" =>
                (/\ processed = PagesTotal(Len(pages))
                 /\ processed = Cardinality(Returned)))
    /\ [][pc' = "done" => processed' = processed]_vars

\* The loop is at the end of the last page of a pass that skipped its first
\* record and failed on its second.
C18_Witness ==
    /\ CycleEnded
    /\ cur = Len(items)
    /\ ExclusiveStartKey = None
    /\ Len(pages) = 2
    /\ Malformed(table[1])
    /\ Has("error")
    /\ processed = 2

\* The reading of the cycle repeats what an earlier update stored on the item:
\* the stored price, and the stored stock or no stock at all.
SameReading ==
    /\ Decided
    /\ IsNumber(Item.last_price)
    /\ IsBoolean(Item.in_stock)
    /\ Val(loc.price) = Item.last_price[2]
    /\ loc.inStock \in {None, Some(Item.in_stock[2])}

\* C19: a cycle whose reading repeats the state that an earlier cycle of the
\* item persisted decides priceDropped = false and restocked = false, looks up
\* no user, publishes nothing, and its update rewrites the stored last price and
\* in_stock; a cycle that publishes has read something other than the stored
\* state.
C19_SameReadingIsQuiet ==
    /\ SameReading =>
          /\ ~loc.priceDropped /\ ~loc.restocked
          /\ ~Has("get") /\ ~Has("publishPrice") /\ ~Has("publishRestock")
          /\ Has("update")
          /\ Has("updated") => /\ table[Idx].last_price = Item.last_price
                               /\ table[Idx].in_stock = Item.in_stock
    /\ (cur > 0 /\ Has("publishPrice")) => Item.last_price # Num(Val(loc.price))
    /\ (cur > 0 /\ Has("publishRestock")) => Item.in_stock # Bool(Val(loc.inStock))

\* An item persisted in stock at price 1 is read again at price 1 with unknown
\* stock, and persisted again.
C19_Witness ==
    /\ CycleEnded
    /\ SameReading
    /\ Has("updated")
    /\ Item.last_price = Num(1)
    /\ Item.in_stock = Bool(TRUE)
    /\ loc.inStock = None
    /\ SNS_PRICE_DROP_TOPIC_ARN # ""
    /\ SNS_STOCK_RESTOCK_TOPIC_ARN # ""

\* C20: restocked holds in a cycle, and a restock message is published in it,
\* only if the reading of that cycle has stock = true and the scanned in_stock
\* is not the boolean true; never on unknown or false stock.
C20_RestockNeedsTrueReading ==
    (cur > 0 /\ (loc.restocked \/ Has("publishRestock"))) =>
        /\ loc.inStock = Some(TRUE)
        /\ Item.in_stock # Bool(TRUE)

\* A restock message went out for an item whose stored in_stock was no boolean.
C20_Witness ==
    /\ CycleEnded
    /\ Has("publishRestock")
    /\ Has("updated")
    /\ Item.in_stock = Str

\* What each strategy of an extractor's chain yields on a page, in the order
\* of the chain: None when its pattern does not match or its token does not
\* parse.
Chain(h) ==
    CASE h.site = "amazon" ->
           << IF h.priceAmount = None THEN None ELSE parseFloat(Val(h.priceAmount)),
              IF h.displayPrice = None THEN None ELSE parseDisplayed(Val(h.displayPrice)),
              IF h.summary = None THEN None ELSE parseDisplayed(Val(h.summary)) >>
      [] h.site = "tokopedia" ->
           << IF h.priceParam = None THEN None
              ELSE Some(MathRound(Val(parseFloat(Val(h.priceParam))))),
              IF h.Rp = None THEN None ELSE parseInt(Keep(Val(h.Rp), Digits)) >>
      [] h.site = "lazada" ->
           << IF h.pdpTrackingData = None THEN None
              ELSE IF ~Val(h.pdpTrackingData).valid THEN None
              ELSE IF Val(h.pdpTrackingData).pdt_price[1] # "string" THEN None
              ELSE parseDigits(Val(h.pdpTrackingData).pdt_price[2]),
              IF h.pdt_price = None THEN None ELSE parseDigits(Val(h.pdt_price)) >>

FirstParseable(chain) ==
    IF \A k \in DOMAIN chain : chain[k] = None THEN None
    ELSE chain[CHOOSE k \in DOMAIN chain :
                 chain[k] # None /\ \A j \in 1 .. k - 1 : chain[j] = None]

\* C13: the price an extractor returns is what the first strategy of its chain
\* that yields a number yields, and null only when none does; a price that
\* Tokopedia takes from the price= parameter is a whole number, the nearest to
\* the parameter.
C13_FallbackChain ==
    result # None =>
        /\ Val(result).price = FirstParseable(Chain(html))
        /\ (html.site = "tokopedia" /\ html.priceParam # None) =>
              LET x == Val(parseFloat(Val(html.priceParam)))
                  p == Val(Val(result).price)
              IN  /\ p % Scale = 0
                  /\ p - Scale \div 2 <= x
                  /\ x < p + Scale \div 2

\* An Amazon page whose priceAmount does not parse and whose buy-box price and
\* summary price differ: the buy-box price is returned.
C13_Witness ==
    /\ result # None
    /\ html.site = "amazon"
    /\ html.priceAmount = Some(<<".">>)
    /\ html.displayPrice = Some(<<"R", "1">>)
    /\ html.summary = Some(<<"1", "1">>)
    /\ Val(result).price = Some(Scale)

\* C14: the stock that extractTokopediaPriceAndStock returns depends on the
\* 'Stok: N' quantity and the out-of-stock keyword alone: with a quantity it is
\* N > 0, keyword or not; without one it is false when the keyword is there and
\* null when it is not.
C14_TokopediaStock ==
    (result # None /\ html.site = "tokopedia") =>
        LET inStock == Val(result).inStock
        IN  /\ html.Stok # None => inStock = Some(Decimal(Val(html.Stok)) > 0)
            /\ (html.Stok = None /\ html.habis) => inStock = Some(FALSE)
            /\ (html.Stok = None /\ ~html.habis) => inStock = None

\* A page with no price, a positive quantity and an out-of-stock keyword.
C14_Witness ==
    /\ result # None
    /\ html.site = "tokopedia"
    /\ html.priceParam = None
    /\ html.Rp = None
    /\ html.Stok = Some(<<"0", "1">>)
    /\ html.habis
    /\ Val(result) = [price |-> None, inStock |-> Some(TRUE), threw |-> FALSE]

\* C15: no extractor throws; the price it returns is a number or null and the
\* stock true, false or null; a tracking string that is no JSON, or a token
\* that does not parse, leaves the price to the strategies after it.
C15_NoExtractorRaises ==
    result # None =>
        LET r == Val(result)
        IN  /\ ~r.threw
            /\ r.price = None \/ (r.price = Some(Val(r.price)) /\ Val(r.price) \in Nat)
            /\ r.inStock \in OptBool
            /\ (html.site = "lazada" /\ Chain(html)[1] = None) => r.price = Chain(html)[2]
            /\ (html.site = "amazon" /\ Chain(html)[1] = None) =>
                  r.price = FirstParseable(Tail(Chain(html)))
            /\ (html.site = "tokopedia" /\ Chain(html)[1] = None) => r.price = Chain(html)[2]

\* A Lazada page whose tracking string is no JSON and whose raw pdt_price parses.
C15_Witness ==
    /\ result # None
    /\ html.site = "lazada"
    /\ html.pdpTrackingData = Some([valid |-> FALSE, pdt_price |-> Undefined])
    /\ html.pdt_price = Some(<<"R", "1">>)
    /\ Val(result).price = Some(Scale)

\* C16: an item with url and owner whose URL lies on a marketplace without
\* extractor is skipped with a warning and its row is left as scanned; and a
\* reading is extracted from an item's page only by the extractor of the
\* marketplace on which the item's URL lies.
C16_UnknownMarketplaceSkipped ==
    (cur > 0 /\ ~Malformed(Item)) =>
        LET marketplace == MarketplaceOf(Val(Item.product_url))
        IN  /\ marketplace \notin Extractors => (calls = <<"warn">> /\ table[Idx] = Item)
            /\ Decided => marketplace = market

====
